---------------------------- MODULE Spec2Model ----------------------------
(***************************************************************************)
(* kana-dojo: the OKLCH colour utilities                                   *)
(* (src/features/Preferences/data/themeColors.ts) and the components of    *)
(* the verb conjugator                                                     *)
(* (src/features/Conjugator/components/ConjugationCategory.tsx and the     *)
(* history panel of src/unnamed/part_000).                                 *)
(*                                                                         *)
(* The colour utilities are pure functions; specification Spec calls them  *)
(* on bounded inputs.  Each component has its own state (row, share, page, *)
(* hist) and its own specification, in which the others stay as they are.  *)
(*                                                                         *)
(* Strings are sequences of one-character strings.  Numbers are exact      *)
(* decimals m / 10^e (kept normalised), plus the values NaN and undefined  *)
(* (an omitted argument).  The only place where the IEEE-754 value of a    *)
(* number can decide a result is Number.prototype.toFixed on a value that  *)
(* lies, as a decimal, exactly half way between two outputs: there the     *)
(* outcome depends on the binary value of the double, and the model takes  *)
(* either direction (the `tie' of a call).                                 *)
(***************************************************************************)
EXTENDS Integers, Sequences, FiniteSets, TLC

VARIABLES call, prev

vars == <<call, prev>>

\* the state of a form row, of the page's share button, of the page and of
\* the history panel
VARIABLES row, share, page, hist

ui == <<row, share, page, hist>>

allVars == <<call, prev, row, share, page, hist>>

\* a component that is not on the screen
Unmounted == [mounted |-> FALSE]

\* the last step of component p called fn
Called(p, fn) == \E i \in DOMAIN p.out : p.out[i].fn = fn

(***************************************************************************)
(* Bounds of the model.                                                    *)
(***************************************************************************)
\* longest run of blanks written between two components of a literal
MaxPad == 2
\* longest run of foreign characters written around an embedded literal
MaxJunk == 1
\* coefficients range over -0.25, 0, 0.25, ..., MaxCoef * 0.25
MaxCoef == 2

(***************************************************************************)
(* Characters.                                                             *)
(***************************************************************************)
Digits == <<"0", "1", "2", "3", "4", "5", "6", "7", "8", "9">>

DigitSet == {Digits[i] : i \in 1..10}

\* the class [\d.] of the pattern
NumChars == DigitSet \cup {"."}

\* the class \s of the pattern (the blank and the tab stand for it)
WhiteSpace == {" ", "\t"}

DigitVal(c) == CHOOSE d \in 0..9 : Digits[d + 1] = c

(***************************************************************************)
(* Numbers.                                                                *)
(***************************************************************************)
PowersOf10 ==
    <<1, 10, 100, 1000, 10000, 100000, 1000000, 10000000, 100000000,
      1000000000>>

\* 10^n, 0 <= n <= 9
Pow10(n) == PowersOf10[n + 1]

NaN == [k |-> "nan", m |-> 0, e |-> 0]

undefined == [k |-> "undef", m |-> 0, e |-> 0]

\* the number of trailing zeros of m that a fraction of e digits can drop
TrailingZeros(m, e) ==
    CHOOSE i \in 0..e :
        /\ m % Pow10(i) = 0
        /\ i = e \/ m % Pow10(i + 1) # 0

Strip(m, e, z) == [k |-> "num", m |-> m \div Pow10(z), e |-> e - z]

\* the number m / 10^e, written without trailing zeros in its fraction
Norm(m, e) == Strip(m, e, TrailingZeros(m, e))

Dec(m, e) == Norm(m, e)

IsNum(a) == a.k = "num"

\* the mantissa of a at scale 10^e, e >= a.e
Scaled(a, e) == a.m * Pow10(e - a.e)

MaxE(a, b) == IF a.e >= b.e THEN a.e ELSE b.e

Add(a, b) ==
    IF ~IsNum(a) \/ ~IsNum(b) THEN NaN
    ELSE Norm(Scaled(a, MaxE(a, b)) + Scaled(b, MaxE(a, b)), MaxE(a, b))

Sub(a, b) ==
    IF ~IsNum(a) \/ ~IsNum(b) THEN NaN
    ELSE Norm(Scaled(a, MaxE(a, b)) - Scaled(b, MaxE(a, b)), MaxE(a, b))

Mul(a, b) ==
    IF ~IsNum(a) \/ ~IsNum(b) THEN NaN
    ELSE Norm(a.m * b.m, a.e + b.e)

Div100(a) == IF ~IsNum(a) THEN NaN ELSE Norm(a.m, a.e + 2)

\* a > b ; false when either is NaN
Gt(a, b) ==
    /\ IsNum(a)
    /\ IsNum(b)
    /\ Scaled(a, MaxE(a, b)) > Scaled(b, MaxE(a, b))

\* Math.max, Math.min: NaN when either argument is NaN
MathMax(a, b) ==
    IF ~IsNum(a) \/ ~IsNum(b) THEN NaN
    ELSE IF Gt(b, a) THEN b ELSE a

MathMin(a, b) ==
    IF ~IsNum(a) \/ ~IsNum(b) THEN NaN
    ELSE IF Gt(a, b) THEN b ELSE a

\* a default parameter value applies when the argument is omitted
Default(a, d) == IF a.k = "undef" THEN d ELSE a

(***************************************************************************)
(* parseFloat on a capture of the pattern (a run of digits and dots): the  *)
(* longest prefix that is a decimal literal, NaN when there is none.       *)
(***************************************************************************)
\* first position >= i of s whose character is not in set (Len(s)+1 if none)
SkipWhile(s, i, set) ==
    IF i > Len(s) THEN i
    ELSE CHOOSE j \in i..(Len(s) + 1) :
             /\ j = Len(s) + 1 \/ s[j] \notin set
             /\ \A q \in i..(j - 1) : s[q] \in set

\* the value of a sequence of digits, read in base 10
DigitsValue(ds) ==
    LET v[i \in 0..Len(ds)] ==
            IF i = 0 THEN 0 ELSE 10 * v[i - 1] + DigitVal(ds[i])
    IN  v[Len(ds)]

\* the number with integer digits ip and fraction digits fp
DecimalOf(ip, fp) ==
    IF ip = <<>> /\ fp = <<>> THEN NaN
    ELSE Norm(DigitsValue(ip \o fp), Len(fp))

\* tok's leading digits end before intEnd
ParseFloatAfterInt(tok, intEnd) ==
    IF intEnd <= Len(tok) /\ tok[intEnd] = "."
    THEN DecimalOf(SubSeq(tok, 1, intEnd - 1),
                   SubSeq(tok, intEnd + 1,
                          SkipWhile(tok, intEnd + 1, DigitSet) - 1))
    ELSE DecimalOf(SubSeq(tok, 1, intEnd - 1), <<>>)

parseFloat(tok) == ParseFloatAfterInt(tok, SkipWhile(tok, 1, DigitSet))

(***************************************************************************)
(* The pattern of parseOklch,                                              *)
(*   /oklch\(\s*([\d.]+)%?\s+([\d.]+)\s+([\d.]+)\s*(?:\/\s*([\d.]+))?\s*\)/ *)
(* A matcher state is the text, the position reached, whether the attempt  *)
(* is still alive and the captures made.  Each element of the pattern is   *)
(* an operator on matcher states.  A class of the pattern never overlaps   *)
(* what may follow it, so a greedy run never gives characters back; the    *)
(* optional groups are tried and, when they fail, skipped.                 *)
(***************************************************************************)
OklchOpen == <<"o", "k", "l", "c", "h", "(">>

Start(s, i) == [s |-> s, pos |-> i, ok |-> TRUE, caps |-> <<>>]

Fail(st) == [st EXCEPT !.ok = FALSE]

\* the literal text lit
Text(st, lit) ==
    IF /\ st.ok
       /\ st.pos + Len(lit) - 1 <= Len(st.s)
       /\ SubSeq(st.s, st.pos, st.pos + Len(lit) - 1) = lit
    THEN [st EXCEPT !.pos = st.pos + Len(lit)]
    ELSE Fail(st)

\* the run of set that ends before j, at least min long, captured or not
RunTo(st, j, min, capture) ==
    IF st.ok /\ j - st.pos >= min
    THEN [st EXCEPT !.pos = j,
                    !.caps = IF capture
                               THEN Append(@, SubSeq(st.s, st.pos, j - 1))
                               ELSE @]
    ELSE Fail(st)

Run(st, set, min, capture) ==
    RunTo(st, IF st.ok THEN SkipWhile(st.s, st.pos, set) ELSE st.pos, min, capture)

\* \s*  \s+  ([\d.]+)
Ws0(st) == Run(st, WhiteSpace, 0, FALSE)

Ws1(st) == Run(st, WhiteSpace, 1, FALSE)

Num(st) == Run(st, NumChars, 1, TRUE)

\* x? : st continued by x when that is alive, st itself otherwise
Optional(st, x) == IF x.ok THEN x ELSE st

\* %?
OptText(st, lit) == Optional(st, Text(st, lit))

\* (?:\/\s*([\d.]+))?
OptAlpha(st) == Optional(st, Num(Ws0(Text(st, <<"/">>))))

\* the attempt to match the pattern at position i of s
MatchAt(s, i) ==
    Text(Ws0(OptAlpha(Ws0(Num(Ws1(Num(Ws1(OptText(Num(Ws0(Text(Start(s, i),
                                                             OklchOpen))),
                                                  <<"%">>)))))))),
         <<")">>)

\* the match at the least of the positions where an attempt succeeds
FirstMatch(s, starts) ==
    IF starts = {} THEN Fail(Start(s, 1))
    ELSE MatchAt(s, CHOOSE i \in starts : \A j \in starts : i <= j)

\* String.prototype.match with a pattern without flags: the leftmost match
match(s) == FirstMatch(s, {i \in 1..Len(s) : MatchAt(s, i).ok})

(***************************************************************************)
(* parseOklch (lines 12-29).  null is the record with ok = FALSE.          *)
(***************************************************************************)
null == [ok |-> FALSE, L |-> NaN, C |-> NaN, H |-> NaN, A |-> NaN]

One == Dec(1, 0)

\* lines 20-21: L = parseFloat(match[1]); if (L > 1) L = L / 100
NormalizeL(L) == IF Gt(L, One) THEN Div100(L) ELSE L

\* lines 18-28, mt the result of the match
ParsedMatch(mt) ==
    IF ~mt.ok THEN null
    ELSE [ok |-> TRUE,
          L  |-> NormalizeL(parseFloat(mt.caps[1])),
          C  |-> parseFloat(mt.caps[2]),
          H  |-> parseFloat(mt.caps[3]),
          A  |-> IF Len(mt.caps) = 4 THEN parseFloat(mt.caps[4]) ELSE One]

parseOklch(oklchColor) == ParsedMatch(match(oklchColor))

(***************************************************************************)
(* Number to text: toFixed and the template literal's ToString.            *)
(***************************************************************************)
Abs(m) == IF m < 0 THEN 0 - m ELSE m

\* the number of decimal digits of the natural number n
NumDigits(n) ==
    IF n >= Pow10(9) THEN 10
    ELSE CHOOSE k \in 1..9 : n < Pow10(k) /\ (k = 1 \/ n >= Pow10(k - 1))

DigitsOfLength(n, len) ==
    [i \in 1..len |-> Digits[((n \div Pow10(len - i)) % 10) + 1]]

\* the decimal digits of the natural number n
NatDigits(n) == DigitsOfLength(n, NumDigits(n))

Zeros(n) == [i \in 1..n |-> "0"]

NaNText == <<"N", "a", "N">>

Sign(x) == IF x.m < 0 THEN <<"-">> ELSE <<>>

\* am / d rounded to the nearest integer; on an exact tie up decides
RoundDiv(am, d, up) ==
    IF 2 * (am % d) > d \/ (2 * (am % d) = d /\ up)
    THEN (am \div d) + 1
    ELSE am \div d

\* the integer n for which n / 10^f is nearest to |x|; on an exact decimal
\* tie the binary value of the double decides: up tells which way
RoundScaled(x, f, up) ==
    IF x.e <= f THEN Abs(x.m) * Pow10(f - x.e)
    ELSE RoundDiv(Abs(x.m), Pow10(x.e - f), up)

\* ds with a point before its last f digits
PointBefore(ds, f) ==
    SubSeq(ds, 1, Len(ds) - f) \o <<".">> \o SubSeq(ds, Len(ds) - f + 1, Len(ds))

\* ds with zeros in front until it has more than f digits
PadTo(ds, f) == IF Len(ds) <= f THEN Zeros(f + 1 - Len(ds)) \o ds ELSE ds

\* x.toFixed(f), f >= 1, |x| < 10^21
toFixed(x, f, up) ==
    IF ~IsNum(x) THEN NaNText
    ELSE Sign(x) \o PointBefore(PadTo(NatDigits(RoundScaled(x, f, up)), f), f)

\* the digits ds of a number whose point stands after n of them (n may be
\* zero or negative), as Number::toString writes it
PlaceDigits(ds, n) ==
    IF n >= Len(ds) THEN ds
    ELSE IF n > 0
      THEN SubSeq(ds, 1, n) \o <<".">> \o SubSeq(ds, n + 1, Len(ds))
    ELSE IF n > -6
      THEN <<"0", ".">> \o Zeros(0 - n) \o ds
    ELSE <<ds[1]>> \o (IF Len(ds) > 1 THEN <<".">> \o Tail(ds) ELSE <<>>)
           \o <<"e", "-">> \o NatDigits(1 - n)

\* `${x}`: Number::toString, for |x| < 10^21
NumberToString(x) ==
    IF ~IsNum(x) THEN NaNText
    ELSE IF x.m = 0 THEN <<"0">>
    ELSE Sign(x) \o PlaceDigits(NatDigits(Abs(x.m)), NumDigits(Abs(x.m)) - x.e)

(***************************************************************************)
(* formatOklch (lines 34-43).  tie = [L, C, H] gives the direction of the  *)
(* three toFixed calls on an exact tie.                                    *)
(***************************************************************************)
Hundred == Dec(100, 0)

\* a formatter that writes the chroma with two decimals
formatOklchChromaTwoDecimals(L, C, H, A, tie) ==
    OklchOpen \o toFixed(Mul(L, Hundred), 2, tie.L) \o <<"%", " ">>
              \o toFixed(C, 2, tie.C) \o <<" ">>
              \o toFixed(H, 2, tie.H) \o <<" ", "/", " ">>
              \o NumberToString(A) \o <<")">>

formatOklch(L, C, H, A, tie) ==
    OklchOpen \o toFixed(Mul(L, Hundred), 2, tie.L) \o <<"%", " ">>
              \o toFixed(C, 4, tie.C) \o <<" ">>
              \o toFixed(H, 2, tie.H) \o <<" ", "/", " ">>
              \o NumberToString(A) \o <<")">>

\* formatOklch(newL, newC, H, A) of a record of the four
Formatted(n, tie) == formatOklch(n.L, n.C, n.H, n.A, tie)

(***************************************************************************)
(* The derivations (lines 61-198).  Each ...New gives what the function    *)
(* hands to formatOklch for the parsed colour p.                           *)
(***************************************************************************)
Zero == Dec(0, 0)

\* the chroma ceiling 0.37 (lines 82, 86, 127, 131, 163, 195)
ChromaMax == Dec(37, 2)

\* the lightness floor 0.05 of the accent and button border (lines 162, 194)
LightnessFloor == Dec(5, 2)

\* lines 64-65
CardLightnessBoost == Dec(2, 1)

CardChromaMultiplier == Dec(12, 1)

\* lines 110-111
\* the border given the boost of the card
BorderLightnessBoostOfCard == Dec(2, 1)

BorderLightnessBoost == Dec(75, 2)

BorderChromaMultiplier == Dec(185, 2)

\* lines 152-153
AccentLightnessReduction == Dec(25, 2)

AccentChromaBoost == Dec(5, 2)

\* the default the comment of generateButtonBorderColor states (line 178)
ButtonLightnessReductionOfComment == Dec(18, 2)

\* lines 184-185
ButtonLightnessReduction == Dec(25, 2)

ButtonChromaBoost == Dec(5, 2)

\* a card derivation with the branches of the two themes exchanged
CardNewThemesSwapped(p, isLight, lightnessBoost, chromaMultiplier) ==
    [L |-> IF isLight
             THEN MathMin(One, Add(p.L, Mul(p.L, lightnessBoost)))
             ELSE MathMax(Zero,
                    Sub(p.L, Mul(Mul(Add(Sub(One, p.L), Dec(12, 2)), lightnessBoost),
                                 Dec(5, 0)))),
     C |-> MathMin(ChromaMax, Mul(p.C, chromaMultiplier)),
     H |-> p.H,
     A |-> p.A]

\* a card derivation with the border's offset 0.15 in the light theme
CardNewBorderOffset(p, isLight, lightnessBoost, chromaMultiplier) ==
    [L |-> IF isLight
             THEN MathMax(Zero,
                    Sub(p.L, Mul(Mul(Add(Sub(One, p.L), Dec(15, 2)), lightnessBoost),
                                 Dec(5, 0))))
             ELSE MathMin(One, Add(p.L, Mul(p.L, lightnessBoost))),
     C |-> MathMin(ChromaMax, Mul(p.C, chromaMultiplier)),
     H |-> p.H,
     A |-> p.A]

\* lines 73-87
CardNew(p, isLight, lightnessBoost, chromaMultiplier) ==
    [L |-> IF isLight
             THEN MathMax(Zero,
                    Sub(p.L, Mul(Mul(Add(Sub(One, p.L), Dec(12, 2)), lightnessBoost),
                                 Dec(5, 0))))
             ELSE MathMin(One, Add(p.L, Mul(p.L, lightnessBoost))),
     C |-> MathMin(ChromaMax, Mul(p.C, chromaMultiplier)),
     H |-> p.H,
     A |-> p.A]

\* lines 67-89, parsed the result of parseOklch(backgroundColor)
CardOf(backgroundColor, parsed, isLight, lightnessBoost, chromaMultiplier, tie) ==
    IF ~parsed.ok THEN backgroundColor
    ELSE Formatted(CardNew(parsed, isLight, lightnessBoost, chromaMultiplier), tie)

generateCardColor(backgroundColor, isLight, lightnessBoost, chromaMultiplier, tie) ==
    CardOf(backgroundColor, parseOklch(backgroundColor), isLight,
           Default(lightnessBoost, CardLightnessBoost),
           Default(chromaMultiplier, CardChromaMultiplier), tie)

\* a border derivation whose dark theme adds the boost itself
BorderNewAdditive(p, isLight, lightnessBoost, chromaMultiplier) ==
    [L |-> IF isLight
             THEN MathMax(Zero,
                    Sub(p.L, Mul(Mul(Add(Sub(One, p.L), Dec(15, 2)), lightnessBoost),
                                 Dec(2, 0))))
             ELSE MathMin(One, Add(p.L, lightnessBoost)),
     C |-> MathMin(ChromaMax, Mul(p.C, chromaMultiplier)),
     H |-> p.H,
     A |-> p.A]

\* lines 119-132
BorderNew(p, isLight, lightnessBoost, chromaMultiplier) ==
    [L |-> IF isLight
             THEN MathMax(Zero,
                    Sub(p.L, Mul(Mul(Add(Sub(One, p.L), Dec(15, 2)), lightnessBoost),
                                 Dec(2, 0))))
             ELSE MathMin(One, Add(p.L, Mul(p.L, lightnessBoost))),
     C |-> MathMin(ChromaMax, Mul(p.C, chromaMultiplier)),
     H |-> p.H,
     A |-> p.A]

\* a border derivation without the check of the parse
BorderOfUnchecked(backgroundColor, parsed, isLight, lightnessBoost, chromaMultiplier, tie) ==
    Formatted(BorderNew(parsed, isLight, lightnessBoost, chromaMultiplier), tie)

\* lines 113-134, parsed the result of parseOklch(backgroundColor)
BorderOf(backgroundColor, parsed, isLight, lightnessBoost, chromaMultiplier, tie) ==
    IF ~parsed.ok THEN backgroundColor
    ELSE Formatted(BorderNew(parsed, isLight, lightnessBoost, chromaMultiplier), tie)

generateBorderColor(backgroundColor, isLight, lightnessBoost, chromaMultiplier, tie) ==
    BorderOf(backgroundColor, parseOklch(backgroundColor), isLight,
             Default(lightnessBoost, BorderLightnessBoost),
             Default(chromaMultiplier, BorderChromaMultiplier), tie)

\* lines 161-163
AccentNew(p, lightnessReduction, chromaBoost) ==
    [L |-> MathMax(LightnessFloor, Sub(p.L, Mul(lightnessReduction, p.L))),
     C |-> MathMin(ChromaMax, Add(p.C, chromaBoost)),
     H |-> p.H,
     A |-> p.A]

\* lines 155-165, parsed the result of parseOklch(color)
AccentOf(color, parsed, lightnessReduction, chromaBoost, tie) ==
    IF ~parsed.ok THEN color
    ELSE Formatted(AccentNew(parsed, lightnessReduction, chromaBoost), tie)

generateAccentColor(color, lightnessReduction, chromaBoost, tie) ==
    AccentOf(color, parseOklch(color),
             Default(lightnessReduction, AccentLightnessReduction),
             Default(chromaBoost, AccentChromaBoost), tie)

\* lines 193-195
ButtonBorderNew(p, lightnessReduction, chromaBoost) ==
    [L |-> MathMax(LightnessFloor, Sub(p.L, Mul(lightnessReduction, p.L))),
     C |-> MathMin(ChromaMax, Add(p.C, chromaBoost)),
     H |-> p.H,
     A |-> p.A]

\* lines 187-197, parsed the result of parseOklch(oklchColor)
ButtonBorderOf(oklchColor, parsed, lightnessReduction, chromaBoost, tie) ==
    IF ~parsed.ok THEN oklchColor
    ELSE Formatted(ButtonBorderNew(parsed, lightnessReduction, chromaBoost), tie)

generateButtonBorderColor(oklchColor, lightnessReduction, chromaBoost, tie) ==
    ButtonBorderOf(oklchColor, parseOklch(oklchColor),
                   Default(lightnessReduction, ButtonLightnessReduction),
                   Default(chromaBoost, ButtonChromaBoost), tie)

(***************************************************************************)
(* Inputs.                                                                 *)
(***************************************************************************)
Blank(n) == [i \in 1..n |-> " "]

Junk(n) == [i \in 1..n |-> "x"]

\* oklch(<ws0><l><pct><sep1><c><sep2><h><alpha>)
Lit(ws0, l, pct, sep1, c, sep2, h, alpha) ==
    OklchOpen \o ws0 \o l \o pct \o sep1 \o c \o sep2 \o h \o alpha \o <<")">>

Pct == <<"%">>

LTokens ==
    { <<"0">>, <<"0", ".", "5">>, <<"1">>, <<"5", "0">>, <<"1", "0", "0">>,
      <<"7", "4", ".", "6", "1">>, <<".">>, <<"1", ".", "2", ".", "3">>,
      <<"6", "0">>, <<"9", "0">>, <<"0", ".", "0", "1">>,
      <<"0", ".", "0", "0", "0", "0", "5">> }

CTokens ==
    { <<"0">>, <<"0", ".", "1">>, <<"0", ".", "1", "7", "1", "5">>,
      <<"0", ".", "4">>, <<".">>, <<".", "5">> }

HTokens ==
    { <<"0">>, <<"2", "0", "0">>, <<"5", "1", ".", "5", "6">>,
      <<"5", "1", ".", "5", "6", "7">>, <<"5", "1", ".", "5", "6", "5">>,
      <<"4", "0", "0">>, <<".">> }

AlphaSegments ==
    { <<>>, <<" ", "/", " ", "1">>, <<" ", "/", " ", "0">>,
      <<"/", "0", ".", "5">>, <<" ", "/", " ", "0", ".", "5", "0">>,
      <<" ", "/", " ", "0", ".", "0", "0", "0", "0", "0", "0", "1">>,
      <<" ", "/", " ", ".">> }

BaseL == <<"5", "0">>

BaseC == <<"0", ".", "1">>

BaseH == <<"2", "0", "0">>

\* oklch(50% 0.1 200)
BaseLit == Lit(<<>>, BaseL, Pct, Blank(1), BaseC, Blank(1), BaseH, <<>>)

LightnessLits ==
    { Lit(<<>>, l, p, Blank(1), BaseC, Blank(1), BaseH, <<>>) :
        l \in LTokens, p \in {<<>>, Pct} }

ChromaLits ==
    { Lit(<<>>, l, Pct, Blank(1), c, Blank(1), BaseH, <<>>) :
        l \in {BaseL, <<"1", "0", "0">>}, c \in CTokens }

HueAlphaLits ==
    { Lit(<<>>, BaseL, Pct, Blank(1), BaseC, Blank(1), h, <<>>) : h \in HTokens }
    \cup { Lit(<<>>, BaseL, Pct, Blank(1), BaseC, Blank(1), BaseH, a) :
             a \in AlphaSegments }
    \cup { Lit(<<>>, BaseL, Pct, Blank(1), BaseC, Blank(1),
               <<"5", "1", ".", "5", "6", "7">>, <<"/", "0", ".", "5">>) }

PaddingLits ==
    { Lit(Blank(n0), BaseL, Pct, Blank(n1), BaseC, Blank(1), BaseH, <<>>) :
        n0 \in 0..MaxPad, n1 \in 0..MaxPad }
    \cup { Lit(<<>>, BaseL, Pct, Blank(1), BaseC, Blank(n2), BaseH, Blank(n3)) :
             n2 \in 0..MaxPad, n3 \in 0..MaxPad }
    \cup { Lit(<<"\t">>, BaseL, <<>>, <<"\t">>, BaseC, <<" ", "\t">>, BaseH, <<>>) }

EmbeddedLits ==
    { Junk(n) \o BaseLit \o Junk(m) : n \in 0..MaxJunk, m \in 0..MaxJunk }
    \cup { OklchOpen \o Junk(n) \o <<" ">> \o BaseLit : n \in 0..MaxJunk }

MalformedLits ==
    { <<>>,
      <<"n", "o", "t", "-", "a", "-", "c", "o", "l", "o", "r">>,
      \* a missing component
      OklchOpen \o BaseL \o Pct \o <<" ">> \o BaseC \o <<")">>,
      OklchOpen \o BaseL \o Pct \o <<")">>,
      OklchOpen \o <<")">>,
      \* a sign, a comma, an exponent
      Lit(<<>>, <<"-", "5", "0">>, Pct, Blank(1), BaseC, Blank(1), BaseH, <<>>),
      Lit(<<>>, BaseL, Pct, <<",", " ">>, BaseC, <<",", " ">>, BaseH, <<>>),
      Lit(<<>>, BaseL, Pct, Blank(1), <<"1", "e", "-", "1">>, Blank(1), BaseH, <<>>),
      \* an alpha segment without a number, no closing parenthesis, another name
      Lit(<<>>, BaseL, Pct, Blank(1), BaseC, Blank(1), BaseH, <<" ", "/", " ">>),
      OklchOpen \o BaseL \o Pct \o <<" ">> \o BaseC \o <<" ">> \o BaseH,
      <<"O", "K", "L", "C", "H", "(">> \o BaseL \o <<" ">> \o BaseC \o <<" ">>
          \o BaseH \o <<")">>,
      <<"r", "g", "b", "(">> \o BaseL \o <<" ">> \o BaseC \o <<" ">>
          \o BaseH \o <<")">> }

Literals ==
    LightnessLits \cup ChromaLits \cup HueAlphaLits \cup PaddingLits
        \cup EmbeddedLits \cup MalformedLits

\* an omitted coefficient, or one of -0.25, 0, 0.25, ..., MaxCoef * 0.25
Coefficients == {undefined} \cup {Dec(25 * k, 2) : k \in -1..MaxCoef}

Ties == [L : BOOLEAN, C : BOOLEAN, H : BOOLEAN]

\* numbers handed to formatOklch directly
FormatL ==
    { Dec(0, 0), Dec(5, 3), Dec(1, 2), Dec(5, 1), Dec(7461, 4), Dec(1, 0),
      Dec(12345, 5) }

FormatC == { Dec(0, 0), Dec(1715, 4), Dec(4, 1), Dec(5, 5) }

FormatH == { Dec(0, 0), Dec(5, 1), Dec(5156, 2), Dec(51565, 3), Dec(360, 0), Dec(-30, 0) }

FormatA == { Dec(0, 0), Dec(5, 1), Dec(1, 0), Dec(1, 7) }

\* x, written with f decimals, lies exactly between two outputs of toFixed
IsTie(x, f) ==
    /\ IsNum(x)
    /\ x.e > f
    /\ 2 * (Abs(x.m) % Pow10(x.e - f)) = Pow10(x.e - f)

\* the ties a call on the numbers n can meet: a direction is recorded as
\* TRUE wherever no tie arises
TieChoices(n) ==
    { t \in Ties : /\ t.L \/ IsTie(Mul(n.L, Hundred), 2)
                   /\ t.C \/ IsTie(n.C, 4)
                   /\ t.H \/ IsTie(n.H, 2) }

(***************************************************************************)
(* The state: the last call made (its function, arguments and result) and, *)
(* when its argument was the text returned by an earlier call, that call.  *)
(***************************************************************************)
NoNumbers == [L |-> NaN, C |-> NaN, H |-> NaN, A |-> NaN]

RoundUp == [L |-> TRUE, C |-> TRUE, H |-> TRUE]

Idle ==
    [fn |-> "none", color |-> <<>>, isLight |-> FALSE, a |-> undefined,
     b |-> undefined, num |-> NoNumbers, tie |-> RoundUp, ret |-> <<>>,
     rec |-> null]

Derivations ==
    {"generateCardColor", "generateBorderColor", "generateAccentColor",
     "generateButtonBorderColor"}

TextFunctions == Derivations \cup {"formatOklch"}

Init ==
    /\ call = Idle
    /\ prev = Idle
    /\ row = Unmounted
    /\ share = Unmounted
    /\ page = Unmounted
    /\ hist = Unmounted

\* parseOklch(s), s a literal or the text the last call returned
CallParseOklch ==
    \/ /\ call.fn = "none"
       /\ \E s \in Literals :
            call' = [Idle EXCEPT !.fn = "parseOklch", !.color = s,
                                 !.rec = parseOklch(s)]
       /\ prev' = Idle
       /\ UNCHANGED ui
    \/ /\ call.fn \in TextFunctions
       /\ call' = [Idle EXCEPT !.fn = "parseOklch", !.color = call.ret,
                               !.rec = parseOklch(call.ret)]
       /\ prev' = call
       /\ UNCHANGED ui

CallFormatOklch ==
    /\ call.fn = "none"
    /\ \E L \in FormatL, C \in FormatC, H \in FormatH, A \in FormatA :
       \E t \in TieChoices([L |-> L, C |-> C, H |-> H]) :
         /\ call' = [Idle EXCEPT !.fn = "formatOklch",
                                 !.num = [L |-> L, C |-> C, H |-> H, A |-> A],
                                 !.tie = t,
                                 !.ret = formatOklch(L, C, H, A, t)]
    /\ prev' = Idle
    /\ UNCHANGED ui

CallGenerateCardColor ==
    /\ call.fn = "none"
    /\ \E s \in Literals, isLight \in BOOLEAN, a \in Coefficients,
          b \in Coefficients :
       \E t \in TieChoices(CardNew(parseOklch(s), isLight,
                          Default(a, CardLightnessBoost),
                          Default(b, CardChromaMultiplier))) :
             /\ call' = [Idle EXCEPT !.fn = "generateCardColor", !.color = s,
                                     !.isLight = isLight, !.a = a, !.b = b,
                                     !.tie = t,
                                     !.ret = generateCardColor(s, isLight, a, b, t)]
    /\ prev' = Idle
    /\ UNCHANGED ui

CallGenerateBorderColor ==
    /\ call.fn = "none"
    /\ \E s \in Literals, isLight \in BOOLEAN, a \in Coefficients,
          b \in Coefficients :
       \E t \in TieChoices(BorderNew(parseOklch(s), isLight,
                            Default(a, BorderLightnessBoost),
                            Default(b, BorderChromaMultiplier))) :
             /\ call' = [Idle EXCEPT !.fn = "generateBorderColor", !.color = s,
                                     !.isLight = isLight, !.a = a, !.b = b,
                                     !.tie = t,
                                     !.ret = generateBorderColor(s, isLight, a, b, t)]
    /\ prev' = Idle
    /\ UNCHANGED ui

CallGenerateAccentColor ==
    /\ call.fn = "none"
    /\ \E s \in Literals, a \in Coefficients, b \in Coefficients :
       \E t \in TieChoices(AccentNew(parseOklch(s),
                            Default(a, AccentLightnessReduction),
                            Default(b, AccentChromaBoost))) :
             /\ call' = [Idle EXCEPT !.fn = "generateAccentColor", !.color = s,
                                     !.a = a, !.b = b, !.tie = t,
                                     !.ret = generateAccentColor(s, a, b, t)]
    /\ prev' = Idle
    /\ UNCHANGED ui

CallGenerateButtonBorderColor ==
    /\ call.fn = "none"
    /\ \E s \in Literals, a \in Coefficients, b \in Coefficients :
       \E t \in TieChoices(ButtonBorderNew(parseOklch(s),
                                  Default(a, ButtonLightnessReduction),
                                  Default(b, ButtonChromaBoost))) :
             /\ call' = [Idle EXCEPT !.fn = "generateButtonBorderColor",
                                     !.color = s, !.a = a, !.b = b, !.tie = t,
                                     !.ret = generateButtonBorderColor(s, a, b, t)]
    /\ prev' = Idle
    /\ UNCHANGED ui

\* the caller is done with the result
Return ==
    /\ call.fn # "none"
    /\ call' = Idle
    /\ prev' = Idle
    /\ UNCHANGED ui

Next ==
    \/ CallParseOklch
    \/ CallFormatOklch
    \/ CallGenerateCardColor
    \/ CallGenerateBorderColor
    \/ CallGenerateAccentColor
    \/ CallGenerateButtonBorderColor
    \/ Return

Spec == Init /\ [][Next]_allVars

(***************************************************************************)
(* Reading a text written by formatOklch, "oklch(P% C H / A)": the parts   *)
(* between its blanks, and the number a part writes (with its sign).       *)
(***************************************************************************)
BlankPositions(out) == {i \in 1..Len(out) : out[i] = " "}

\* the position of the n-th blank of out
NthBlank(out, n) ==
    CHOOSE i \in BlankPositions(out) :
        Cardinality({j \in BlankPositions(out) : j < i}) = n - 1

IsFormatted(out) ==
    /\ Len(out) > Len(OklchOpen)
    /\ SubSeq(out, 1, Len(OklchOpen)) = OklchOpen
    /\ Cardinality(BlankPositions(out)) = 4

\* P, without the percent sign
WrittenLightness(out) == SubSeq(out, Len(OklchOpen) + 1, NthBlank(out, 1) - 2)

WrittenChroma(out) == SubSeq(out, NthBlank(out, 1) + 1, NthBlank(out, 2) - 1)

WrittenHue(out) == SubSeq(out, NthBlank(out, 2) + 1, NthBlank(out, 3) - 1)

WrittenAlpha(out) == SubSeq(out, NthBlank(out, 4) + 1, Len(out) - 1)

Negated(x) == IF IsNum(x) THEN Norm(0 - x.m, x.e) ELSE NaN

\* the number a written part denotes: NaN for "NaN", a sign honoured
WrittenValue(part) ==
    IF part # <<>> /\ part[1] = "-" THEN Negated(parseFloat(Tail(part)))
    ELSE parseFloat(part)

\* x <= y, both numbers
Le(x, y) == IsNum(x) /\ IsNum(y) /\ ~Gt(x, y)

\* |x - y| <= d, all numbers
Within(x, y, d) == Le(Sub(x, y), d) /\ Le(Sub(y, x), d)

\* a run of digits and dots that is one decimal literal: digits with at
\* most one dot among them
WellFormedNumber(tok) ==
    /\ tok # <<>>
    /\ \A i \in 1..Len(tok) : tok[i] \in NumChars
    /\ \E i \in 1..Len(tok) : tok[i] \in DigitSet
    /\ Cardinality({i \in 1..Len(tok) : tok[i] = "."}) <= 1

\* the colour the last call was given, as parseOklch reads it
Given == parseOklch(call.color)

\* the colour the call before was given, as parseOklch reads it
GivenBefore == parseOklch(prev.color)

(***************************************************************************)
(* C1.  For L in [0,1], C >= 0, H and A in [0,1],                          *)
(* parseOklch(formatOklch(L, C, H, A)) is a record whose L, C, H and A     *)
(* each differ from the numbers given by at most 0.01.                     *)
(***************************************************************************)
Tolerance == Dec(1, 2)

InUnit(x) == Le(Zero, x) /\ Le(x, One)

C1_RoundTrip ==
    ( /\ call.fn = "parseOklch"
      /\ prev.fn = "formatOklch"
      /\ InUnit(prev.num.L)
      /\ Le(Zero, prev.num.C)
      /\ InUnit(prev.num.H)
      /\ InUnit(prev.num.A) )
    => /\ call.rec.ok
       /\ Within(call.rec.L, prev.num.L, Tolerance)
       /\ Within(call.rec.C, prev.num.C, Tolerance)
       /\ Within(call.rec.H, prev.num.H, Tolerance)
       /\ Within(call.rec.A, prev.num.A, Tolerance)

(***************************************************************************)
(* C2.  Given a text that parseOklch rejects, each of the four derivations *)
(* returns exactly that text, whatever its flag and coefficients.          *)
(***************************************************************************)
C2_FallbackUnchanged ==
    (call.fn \in Derivations /\ ~Given.ok) => call.ret = call.color

NotAColor == <<"n", "o", "t", "-", "a", "-", "c", "o", "l", "o", "r">>

C2_Witness ==
    /\ call.fn = "generateBorderColor"
    /\ call.color = NotAColor
    /\ call.isLight
    /\ call.a = Dec(5, 1)
    /\ call.b = undefined
    /\ call.ret = NotAColor

(***************************************************************************)
(* C3.  Given a text that parseOklch accepts, the chroma written in the    *)
(* result of each of the four derivations is at most 0.37.                 *)
(***************************************************************************)
C3_ChromaAtMost037 ==
    (call.fn \in Derivations /\ Given.ok)
    => /\ IsFormatted(call.ret)
       /\ Le(WrittenValue(WrittenChroma(call.ret)), ChromaMax)

(***************************************************************************)
(* C4.  Given a text that parseOklch accepts, the lightness written in the *)
(* result of generateAccentColor and of generateButtonBorderColor is at    *)
(* least 5 (percent), that is 0.05.                                        *)
(***************************************************************************)
C4_LightnessAtLeast005 ==
    ( /\ call.fn \in {"generateAccentColor", "generateButtonBorderColor"}
      /\ Given.ok )
    => /\ IsFormatted(call.ret)
       /\ Le(Dec(5, 0), WrittenValue(WrittenLightness(call.ret)))

(***************************************************************************)
(* C5.  parseOklch normalises the lightness however it is written: a       *)
(* percentage p% with 0 <= p <= 100 gives L = p / 100, a fraction f in     *)
(* [0,1] without a percent sign gives L = f, so L lies in [0,1].           *)
(***************************************************************************)
\* oklch(<l><p> 0.1 200), p the percent sign or nothing
LightnessLit(l, p) == Lit(<<>>, l, p, Blank(1), BaseC, Blank(1), BaseH, <<>>)

C5_LightnessNormalized ==
    call.fn = "parseOklch"
    => \A l \in LTokens :
         /\ ( /\ WellFormedNumber(l)
              /\ Le(parseFloat(l), Hundred)
              /\ call.color = LightnessLit(l, Pct) )
            => /\ call.rec.ok
               /\ call.rec.L = Div100(parseFloat(l))
               /\ InUnit(call.rec.L)
         /\ ( /\ WellFormedNumber(l)
              /\ Le(parseFloat(l), One)
              /\ call.color = LightnessLit(l, <<>>) )
            => /\ call.rec.ok
               /\ call.rec.L = parseFloat(l)
               /\ InUnit(call.rec.L)

(***************************************************************************)
(* C6.  parseOklch returns null for every text that is not, as a whole,    *)
(* oklch(<L>[%] <C> <H> [/ <A>]) with L, C and H each a well-formed        *)
(* integer or decimal literal.                                             *)
(***************************************************************************)
\* the whole of s is one match of the pattern, begun at its first character
WholeMatch(s) == MatchAt(s, 1).ok /\ MatchAt(s, 1).pos = Len(s) + 1

WholeForm(s) ==
    /\ WholeMatch(s)
    /\ \A i \in 1..3 : WellFormedNumber(MatchAt(s, 1).caps[i])

C6_NullUnlessWholeForm ==
    (call.fn = "parseOklch" /\ ~WholeForm(call.color)) => ~call.rec.ok

(***************************************************************************)
(* C7.  Given a text that parseOklch reads as L, C, H, A,                  *)
(* generateCardColor returns formatOklch(newL, newC, H, A) with            *)
(* newC = min(0.37, C * chromaMultiplier),                                 *)
(* newL = max(0, L - (1 - L + 0.12) * lightnessBoost * 5) in the light     *)
(* theme and min(1, L + L * lightnessBoost) in the dark one, the boost     *)
(* defaulting to 0.2 and the multiplier to 1.2; a light base with L = 1    *)
(* and the default boost gets the lightness 88.00%.                        *)
(***************************************************************************)
C7_NewL(L, isLight, boost) ==
    IF isLight
    THEN MathMax(Zero, Sub(L, Mul(Dec(5, 0), Mul(boost, Add(Dec(12, 2), Sub(One, L))))))
    ELSE MathMin(One, Add(L, Mul(boost, L)))

C7_NewC(C, multiplier) == MathMin(Dec(37, 2), Mul(multiplier, C))

C7_CardFormula ==
    (call.fn = "generateCardColor" /\ Given.ok)
    => /\ call.ret = formatOklch(C7_NewL(Given.L, call.isLight,
                                         Default(call.a, Dec(2, 1))),
                                 C7_NewC(Given.C, Default(call.b, Dec(12, 1))),
                                 Given.H, Given.A, call.tie)
       /\ (call.isLight /\ Given.L = One /\ call.a = undefined)
          => WrittenLightness(call.ret) = <<"8", "8", ".", "0", "0">>

C7_Witness ==
    /\ call.fn = "generateCardColor"
    /\ call.isLight
    /\ call.a = undefined
    /\ call.b = undefined
    /\ Given.ok
    /\ Given.L = One
    /\ Given.C = Dec(1, 1)
    /\ WrittenLightness(call.ret) = <<"8", "8", ".", "0", "0">>
    /\ WrittenChroma(call.ret) = <<"0", ".", "1", "2", "0", "0">>

(***************************************************************************)
(* C8.  Given a text that parseOklch reads as L, C, H, A,                  *)
(* generateBorderColor returns formatOklch(newL, newC, H, A) with          *)
(* newC = min(0.37, C * chromaMultiplier),                                 *)
(* newL = max(0, L - (1 - L + 0.15) * lightnessBoost * 2) in the light     *)
(* theme and min(1, L + L * lightnessBoost) in the dark one, the boost     *)
(* defaulting to 0.75 and the multiplier to 1.85; in the dark theme a base *)
(* with L = 0 gets the lightness 0 for every boost.                        *)
(***************************************************************************)
C8_NewL(L, isLight, boost) ==
    IF isLight
    THEN MathMax(Zero, Sub(L, Mul(Dec(2, 0), Mul(boost, Add(Dec(15, 2), Sub(One, L))))))
    ELSE MathMin(One, Add(L, Mul(boost, L)))

C8_NewC(C, multiplier) == MathMin(Dec(37, 2), Mul(multiplier, C))

C8_BorderFormula ==
    (call.fn = "generateBorderColor" /\ Given.ok)
    => /\ call.ret = formatOklch(C8_NewL(Given.L, call.isLight,
                                         Default(call.a, Dec(75, 2))),
                                 C8_NewC(Given.C, Default(call.b, Dec(185, 2))),
                                 Given.H, Given.A, call.tie)
       /\ (~call.isLight /\ Given.L = Zero)
          => WrittenLightness(call.ret) = <<"0", ".", "0", "0">>

C8_Witness ==
    /\ call.fn = "generateBorderColor"
    /\ ~call.isLight
    /\ call.a = Dec(5, 1)
    /\ call.b = undefined
    /\ Given.ok
    /\ Given.L = Zero
    /\ Given.C = Dec(1, 1)
    /\ WrittenLightness(call.ret) = <<"0", ".", "0", "0">>
    /\ WrittenChroma(call.ret) = <<"0", ".", "1", "8", "5", "0">>

(***************************************************************************)
(* C9.  generateAccentColor and generateButtonBorderColor return the same  *)
(* text for the same arguments, whether the text given parses or not and   *)
(* whether the coefficients are given or omitted.                          *)
(***************************************************************************)
C9_AccentIsButtonBorder ==
    /\ call.fn = "generateAccentColor"
       => call.ret = generateButtonBorderColor(call.color, call.a, call.b, call.tie)
    /\ call.fn = "generateButtonBorderColor"
       => call.ret = generateAccentColor(call.color, call.a, call.b, call.tie)

C9_Witness ==
    /\ call.fn = "generateAccentColor"
    /\ call.a = undefined
    /\ call.b = undefined
    /\ Given.ok
    /\ call.ret # call.color
    /\ call.ret = generateButtonBorderColor(call.color, undefined, undefined,
                                            call.tie)

(***************************************************************************)
(* C10.  For every text x that parseOklch accepts and each of the four     *)
(* derivations f, parseOklch(f(x)) has the same H and the same A as        *)
(* parseOklch(x).                                                          *)
(***************************************************************************)
C10_HueAlphaSame ==
    ( /\ call.fn = "parseOklch"
      /\ prev.fn \in Derivations
      /\ GivenBefore.ok )
    => /\ call.rec.ok
       /\ call.rec.H = GivenBefore.H
       /\ call.rec.A = GivenBefore.A

\* the derived text does not parse at all: an alpha of 0.0000001 is written
\* as 1e-7 by `${A}', which the pattern of parseOklch does not accept
C10_NullAfterDerivation ==
    /\ call.fn = "parseOklch"
    /\ prev.fn = "generateCardColor"
    /\ prev.a = undefined
    /\ prev.b = undefined
    /\ GivenBefore.ok
    /\ GivenBefore.H = Dec(200, 0)
    /\ GivenBefore.A = Dec(1, 7)
    /\ ~call.rec.ok

(***************************************************************************)
(* What is left of the passing through where the derived text does parse:  *)
(* the alpha is the same, and the hue is that of parseOklch(x) rounded to  *)
(* two decimals, the precision of formatOklch: a number of at most two     *)
(* decimals within 0.005 of it, the same H when x writes its hue with at   *)
(* most two decimals.                                                      *)
(***************************************************************************)
HueRoundedAlphaSameWhereParsed ==
    ( /\ call.fn = "parseOklch"
      /\ prev.fn \in Derivations
      /\ GivenBefore.ok
      /\ call.rec.ok )
    => /\ call.rec.A = GivenBefore.A
       /\ call.rec.H.e <= 2
       /\ Within(call.rec.H, GivenBefore.H, Dec(5, 3))
       /\ GivenBefore.H.e <= 2 => call.rec.H = GivenBefore.H

\* a hue of 51.567 comes back as 51.57
HueRoundedReached ==
    /\ call.fn = "parseOklch"
    /\ prev.fn = "generateCardColor"
    /\ GivenBefore.ok
    /\ GivenBefore.H = Dec(51567, 3)
    /\ GivenBefore.A = Dec(5, 1)
    /\ call.rec.ok
    /\ call.rec.H = Dec(5157, 2)
    /\ call.rec.A = Dec(5, 1)

(***************************************************************************)
(* The lightness written by generateCardColor and generateBorderColor for  *)
(* a base colour, both called with the default coefficients.               *)
(***************************************************************************)
DefaultCardLightness(s, isLight, tie) ==
    WrittenValue(WrittenLightness(
        generateCardColor(s, isLight, undefined, undefined, tie)))

DefaultCardTies(s, isLight) ==
    TieChoices(CardNew(parseOklch(s), isLight, CardLightnessBoost,
                       CardChromaMultiplier))

\* x < y, both numbers
Lt(x, y) == IsNum(x) /\ IsNum(y) /\ Gt(y, x)

BorderByDefault ==
    /\ call.fn = "generateBorderColor"
    /\ call.a = undefined
    /\ call.b = undefined
    /\ Given.ok
    /\ InUnit(Given.L)

(***************************************************************************)
(* C11.  As claimed: with the default coefficients and a base colour with  *)
(* L in [0,1], the lightness written by generateBorderColor is lower than  *)
(* the one written by generateCardColor in the light theme and higher in   *)
(* the dark theme.                                                         *)
(***************************************************************************)
C11_BorderFurther ==
    BorderByDefault
    => \A t \in DefaultCardTies(call.color, call.isLight) :
         IF call.isLight
         THEN Lt(WrittenValue(WrittenLightness(call.ret)),
                 DefaultCardLightness(call.color, TRUE, t))
         ELSE Lt(DefaultCardLightness(call.color, FALSE, t),
                 WrittenValue(WrittenLightness(call.ret)))

(***************************************************************************)
(* C11, amended.  With the default coefficients and a base colour with L   *)
(* in [0,1], the lightness written by generateBorderColor is never higher  *)
(* than the one written by generateCardColor in the light theme and lower  *)
(* whenever the card's is above 0; in the dark theme it is never lower,    *)
(* and higher whenever the card's is below 100 and L is at least 0.01.     *)
(***************************************************************************)
C11_BorderNotNearer ==
    BorderByDefault
    => \A t \in DefaultCardTies(call.color, call.isLight) :
         IF call.isLight
         THEN /\ Le(WrittenValue(WrittenLightness(call.ret)),
                    DefaultCardLightness(call.color, TRUE, t))
              /\ Lt(Zero, DefaultCardLightness(call.color, TRUE, t))
                 => Lt(WrittenValue(WrittenLightness(call.ret)),
                       DefaultCardLightness(call.color, TRUE, t))
         ELSE /\ Le(DefaultCardLightness(call.color, FALSE, t),
                    WrittenValue(WrittenLightness(call.ret)))
              /\ ( /\ Lt(DefaultCardLightness(call.color, FALSE, t), Hundred)
                   /\ Le(Dec(1, 2), Given.L) )
                 => Lt(DefaultCardLightness(call.color, FALSE, t),
                       WrittenValue(WrittenLightness(call.ret)))

C11_Witness ==
    /\ BorderByDefault
    /\ call.isLight
    /\ Given.L = One
    /\ WrittenLightness(call.ret) = <<"7", "7", ".", "5", "0">>
    /\ DefaultCardLightness(call.color, TRUE, RoundUp) = Dec(88, 0)

(***************************************************************************)
(* The darkening of a light-theme card: the base lightness minus the       *)
(* lightness generateCardColor writes (a percentage, read as a fraction).  *)
(***************************************************************************)
Darkening(s, boost, multiplier, tie) ==
    Sub(parseOklch(s).L,
        Div100(WrittenValue(WrittenLightness(
            generateCardColor(s, TRUE, boost, multiplier, tie)))))

CardTies(s, boost, multiplier) ==
    TieChoices(CardNew(parseOklch(s), TRUE, Default(boost, CardLightnessBoost),
                       Default(multiplier, CardChromaMultiplier)))

\* oklch(<l> 0.1 200), the bases the darkening is compared on
PlainLightnessLits == { LightnessLit(l, <<>>) : l \in LTokens }

LightCard ==
    /\ call.fn = "generateCardColor"
    /\ call.isLight
    /\ Given.ok
    /\ InUnit(Given.L)
    /\ Le(Zero, Default(call.a, CardLightnessBoost))

\* the darkening of the call made
DarkeningNow == Darkening(call.color, call.a, call.b, call.tie)

\* no smaller with a larger boost on the same base
GrowsWithBoost ==
    \A a2 \in Coefficients :
      Lt(Default(call.a, CardLightnessBoost), Default(a2, CardLightnessBoost))
      => \A t \in CardTies(call.color, a2, call.b) :
           Le(DarkeningNow, Darkening(call.color, a2, call.b, t))

\* the bases of a lightness in [0,1] no higher than the one given
LowerBases ==
    { s \in PlainLightnessLits :
        /\ parseOklch(s).ok
        /\ InUnit(parseOklch(s).L)
        /\ Le(parseOklch(s).L, Given.L) }

(***************************************************************************)
(* C12.  As claimed: for a light-theme card on a base of lightness L in    *)
(* [0,1] with a boost >= 0, the darkening does not decrease when the boost *)
(* grows with L fixed, nor when L gets lower with the boost fixed.         *)
(***************************************************************************)
C12_DarkeningMonotone ==
    LightCard
    => /\ GrowsWithBoost
       /\ \A s \in LowerBases :
            \A t \in CardTies(s, call.a, call.b) :
              Le(DarkeningNow, Darkening(s, call.a, call.b, t))

(***************************************************************************)
(* C12, amended.  The darkening does not decrease when the boost grows     *)
(* with L fixed; when L gets lower with the boost fixed it does not        *)
(* decrease by more than the rounding of the two written lightnesses       *)
(* (0.0001) as long as the lightness written for the lower L is above 0.   *)
(***************************************************************************)
RoundingSlack == Dec(1, 4)

C12_DarkeningMonotoneUnclamped ==
    LightCard
    => /\ GrowsWithBoost
       /\ \A s \in LowerBases :
            \A t \in CardTies(s, call.a, call.b) :
              Lt(Zero, WrittenValue(WrittenLightness(
                         generateCardColor(s, TRUE, call.a, call.b, t))))
              => Le(DarkeningNow,
                    Add(Darkening(s, call.a, call.b, t), RoundingSlack))

C12_Witness ==
    /\ LightCard
    /\ call.a = undefined
    /\ Given.L = Dec(9, 1)
    /\ WrittenLightness(call.ret) = <<"6", "8", ".", "0", "0">>
    /\ DarkeningNow = Dec(22, 2)
    /\ Darkening(LightnessLit(<<"6", "0">>, <<>>), undefined, call.b, RoundUp)
         = Dec(52, 2)
    /\ Darkening(call.color, Dec(5, 1), call.b, RoundUp) = Dec(55, 2)

(***************************************************************************)
(* The alpha segment of a text, read off the text itself: what stands      *)
(* between its first slash and the parenthesis that follows, blanks left   *)
(* out.                                                                    *)
(***************************************************************************)
HasSlash(s) == \E i \in 1..Len(s) : s[i] = "/"

SlashAt(s) == CHOOSE i \in 1..Len(s) : s[i] = "/" /\ \A j \in 1..(i - 1) : s[j] # "/"

CloseAfter(s, i) ==
    CHOOSE j \in (i + 1)..Len(s) :
        s[j] = ")" /\ \A k \in (i + 1)..(j - 1) : s[k] # ")"

NotBlank(c) == c \notin WhiteSpace

WrittenAlphaSegment(s) ==
    SelectSeq(SubSeq(s, SlashAt(s) + 1, CloseAfter(s, SlashAt(s)) - 1), NotBlank)

(***************************************************************************)
(* C13.  For every text parseOklch accepts, A is the number written in the *)
(* alpha segment when the text has one (a written 0 included) and 1 when   *)
(* it has none.                                                            *)
(***************************************************************************)
C13_AlphaAsWritten ==
    (call.fn = "parseOklch" /\ call.rec.ok)
    => IF HasSlash(call.color)
       THEN /\ WellFormedNumber(WrittenAlphaSegment(call.color))
            /\ call.rec.A = parseFloat(WrittenAlphaSegment(call.color))
       ELSE call.rec.A = One

(***************************************************************************)
(* The shape of a text "oklch(P% C H / A)" and of a number written with a  *)
(* fixed count of decimals.                                                *)
(***************************************************************************)
CanonicalShape(out) ==
    /\ IsFormatted(out)
    /\ out[NthBlank(out, 1) - 1] = "%"
    /\ NthBlank(out, 4) = NthBlank(out, 3) + 2
    /\ out[NthBlank(out, 3) + 1] = "/"
    /\ out[Len(out)] = ")"
    /\ Cardinality({i \in 1..Len(out) : out[i] = ")"}) = 1

Unsigned(part) == IF part # <<>> /\ part[1] = "-" THEN Tail(part) ELSE part

\* digits, a point, then exactly n digits
HasDecimals(part, n) ==
    /\ Len(Unsigned(part)) >= n + 2
    /\ \A i \in 1..Len(Unsigned(part)) :
         IF i = Len(Unsigned(part)) - n
         THEN Unsigned(part)[i] = "."
         ELSE Unsigned(part)[i] \in DigitSet

\* the decimal digits of x and no more: no point without need, no zero at
\* the end of a fraction
PlainNumber(part, x) ==
    /\ WellFormedNumber(part)
    /\ parseFloat(part) = x
    /\ part[Len(part)] # "."
    /\ (\E i \in 1..Len(part) : part[i] = ".") => part[Len(part)] # "0"

GoldenText ==
    <<"o", "k", "l", "c", "h", "(", "7", "4", ".", "6", "1", "%", " ",
      "0", ".", "1", "7", "1", "5", " ", "5", "1", ".", "5", "6", " ", "/",
      " ", "1", ")">>

GoldenNumbers ==
    [L |-> Dec(7461, 4), C |-> Dec(1715, 4), H |-> Dec(5156, 2), A |-> Dec(1, 0)]

(***************************************************************************)
(* C14.  formatOklch(L, C, H, A) returns "oklch(P% C H / A)" with P the    *)
(* number L * 100 in exactly 2 decimals, C in exactly 4, H in exactly 2    *)
(* and A written as the number it is, with no fixed count of decimals (in  *)
(* exponent form below 0.000001);                                          *)
(* formatOklch(0.7461, 0.1715, 51.56, 1) is                                *)
(* "oklch(74.61% 0.1715 51.56 / 1)".                                       *)
(***************************************************************************)
C14_CanonicalText ==
    call.fn = "formatOklch"
    => /\ CanonicalShape(call.ret)
       /\ HasDecimals(WrittenLightness(call.ret), 2)
       /\ Within(WrittenValue(WrittenLightness(call.ret)),
                 Mul(call.num.L, Hundred), Dec(5, 3))
       /\ HasDecimals(WrittenChroma(call.ret), 4)
       /\ Within(WrittenValue(WrittenChroma(call.ret)), call.num.C, Dec(5, 5))
       /\ HasDecimals(WrittenHue(call.ret), 2)
       /\ Within(WrittenValue(WrittenHue(call.ret)), call.num.H, Dec(5, 3))
       /\ IF Le(Dec(1, 6), call.num.A) \/ call.num.A = Zero
          THEN PlainNumber(WrittenAlpha(call.ret), call.num.A)
          ELSE call.num.A = Dec(1, 7)
               /\ WrittenAlpha(call.ret) = <<"1", "e", "-", "7">>
       /\ call.num = GoldenNumbers => call.ret = GoldenText

C14_Witness ==
    /\ call.fn = "formatOklch"
    /\ call.num = GoldenNumbers
    /\ call.ret = GoldenText

(***************************************************************************)
(* Timers.  The pending timers of a component are the times, in ms, left   *)
(* until each is due, in the order they were set (all are set with the     *)
(* same delay, so this is the order they fire in).  Time passes in steps   *)
(* and never past a timer that is due.                                     *)
(***************************************************************************)
\* setTimeout(callback, delay)
SetTimeout(timers, delay) == Append(timers, delay)

Steps == {500, 1000, 2000}

CanElapse(timers, d) == timers # <<>> /\ d <= timers[1]

Elapsed(timers, d) == [i \in 1..Len(timers) |-> timers[i] - d]

Due(timers) == timers # <<>> /\ timers[1] = 0

(***************************************************************************)
(* FormRow (lines 179-264): the row at one place of the list.  Its form    *)
(* (named by form.id, the key of the row, line 163), its `copied' flag,    *)
(* the timers set by its handleCopy that have not fired, the timers left   *)
(* behind by rows that were at this place and are unmounted (`stale'), the *)
(* clicks made, the event the last step handled and the calls of the props *)
(* it made.                                                                *)
(***************************************************************************)
\* clicks on the copy button of a row
MaxClicks == 3

\* line 193
CopiedResetDelay == 2000

\* the ids of the forms
Forms == {"te-form", "masu-form"}

RowStart(form) ==
    [mounted |-> TRUE, form |-> form, copied |-> FALSE, timers |-> <<>>,
     stale |-> <<>>, clicks |-> 0, event |-> "mount", out |-> <<>>]

\* all timers that run, in the order they were set: the stale ones are older
RowPending(r) == r.stale \o r.timers

RowInit ==
    /\ row \in {RowStart(f) : f \in Forms}
    /\ share = Unmounted
    /\ page = Unmounted
    /\ hist = Unmounted
    /\ call = Idle
    /\ prev = Idle

\* a handleCopy that sets no timer
RowHandleCopyNoTimer ==
    /\ row.clicks < MaxClicks
    /\ row' = [row EXCEPT !.event = "click",
                          !.out = <<[fn |-> "onCopy", form |-> row.form]>>,
                          !.copied = TRUE,
                          !.clicks = @ + 1]
    /\ UNCHANGED <<share, page, hist, vars>>

\* a click on the copy button: handleCopy, lines 190-194
RowHandleCopy ==
    /\ row.clicks < MaxClicks
    /\ row' = [row EXCEPT !.event = "click",
                          !.out = <<[fn |-> "onCopy", form |-> row.form]>>,
                          !.copied = TRUE,
                          !.timers = SetTimeout(@, CopiedResetDelay),
                          !.clicks = @ + 1]
    /\ UNCHANGED <<share, page, hist, vars>>

\* the callback of line 193, of a timer of the row that is mounted; the
\* stale timers are older and run first
RowTimerFires ==
    /\ Due(row.timers)
    /\ ~Due(row.stale)
    /\ row' = [row EXCEPT !.event = "timer", !.out = <<>>,
                          !.copied = FALSE, !.timers = Tail(@)]
    /\ UNCHANGED <<share, page, hist, vars>>

\* the callback of line 193, of a timer of a row that is unmounted: its
\* setCopied(false) reaches no row on the screen
RowStaleTimerFires ==
    /\ Due(row.stale)
    /\ row' = [row EXCEPT !.event = "stale timer", !.out = <<>>,
                          !.stale = Tail(@)]
    /\ UNCHANGED <<share, page, hist, vars>>

RowElapse ==
    /\ \E d \in Steps :
         /\ CanElapse(RowPending(row), d)
         /\ row' = [row EXCEPT !.event = "time", !.out = <<>>,
                               !.timers = Elapsed(@, d),
                               !.stale = Elapsed(@, d)]
    /\ UNCHANGED <<share, page, hist, vars>>

\* the parent renders the list with a form of another id at this place: the
\* key of line 163 differs, so the row is unmounted and a new row is mounted
\* (copied false, no timer of its own); the timers of the old row run on.
\* A form of the same id leaves the row as it is.
RowRender ==
    /\ \E f \in Forms \ {row.form} :
         row' = [RowStart(f) EXCEPT !.stale = RowPending(row),
                                   !.clicks = row.clicks]
    /\ UNCHANGED <<share, page, hist, vars>>

RowNext ==
    \/ RowHandleCopy
    \/ RowTimerFires
    \/ RowStaleTimerFires
    \/ RowElapse
    \/ RowRender

RowSpec == RowInit /\ [][RowNext]_allVars

\* the event loop runs a timer that is due, and time passes
RowLive ==
    /\ RowSpec
    /\ WF_allVars(RowTimerFires)
    /\ WF_allVars(RowStaleTimerFires)
    /\ WF_allVars(RowElapse)

(***************************************************************************)
(* C15.  Every click on the copy button of a row calls onCopy once, with   *)
(* the form of the row, and sets `copied'; `copied' is off whenever no     *)
(* timer is pending, and whenever it is on it is off again later.          *)
(***************************************************************************)
C15_ClickCopiesOnce ==
    row'.clicks = row.clicks + 1
    => /\ row'.out = <<[fn |-> "onCopy", form |-> row.form]>>
       /\ row'.copied

C15_CopiedReverts ==
    /\ [][C15_ClickCopiesOnce]_allVars
    /\ [](row.timers = <<>> => ~row.copied)
    /\ row.copied ~> ~row.copied

C15_Witness ==
    /\ row.event = "timer"
    /\ row.clicks = 2
    /\ row.timers = <<>>
    /\ ~row.copied

(***************************************************************************)
(* Values that may be missing (null): a verb, a parameter of the URL.      *)
(***************************************************************************)
NoValue == [some |-> FALSE, text |-> <<>>]

Some(s) == [some |-> TRUE, text |-> s]

\* what `if (x)' and `x || y' test: neither null nor the empty string
Truthy(x) == x.some /\ x.text # <<>>

\* x || y
OrElse(x, y) == IF Truthy(x) THEN x ELSE y

(***************************************************************************)
(* encodeURIComponent, for the characters the model writes: the letters    *)
(* stand for themselves, the others are written as the escapes of their    *)
(* UTF-8 bytes.                                                            *)
(***************************************************************************)
Escaped == {" ", "&", "=", "%", "+", "?", "/", "#", "食"}

Escape(c) ==
    CASE c = " " -> <<"%", "2", "0">>
      [] c = "&" -> <<"%", "2", "6">>
      [] c = "=" -> <<"%", "3", "D">>
      [] c = "%" -> <<"%", "2", "5">>
      [] c = "+" -> <<"%", "2", "B">>
      [] c = "?" -> <<"%", "3", "F">>
      [] c = "/" -> <<"%", "2", "F">>
      [] c = "#" -> <<"%", "2", "3">>
      [] c = "食" -> <<"%", "E", "9", "%", "A", "3", "%", "9", "F">>
      [] OTHER -> <<c>>

RECURSIVE encodeURIComponent(_)
encodeURIComponent(s) ==
    IF s = <<>> THEN <<>>
    ELSE Escape(Head(s)) \o encodeURIComponent(Tail(s))

\* the dictionary forms of the verbs a conjugation may return
DictionaryForms == { <<"a", "u">>, <<"食", " ", "&">> }

Results == {NoValue} \cup {Some(v) : v \in DictionaryForms}

Origin == <<"h", "t", "t", "p", "s", ":", "/", "/", "k", "d">>

Pathname == <<"/", "c">>

\* the URL written without encodeURIComponent
VerbUrlUnencoded(verb) ==
    Pathname \o <<"?", "v", "e", "r", "b", "=">> \o verb

\* `${pathname}?verb=${encodeURIComponent(verb)}`
VerbUrl(verb) ==
    Pathname \o <<"?", "v", "e", "r", "b", "=">> \o encodeURIComponent(verb)

(***************************************************************************)
(* The share button of ConjugatorPage (lines 412-414, 472-498): the result *)
(* of the store, whether navigator.share exists, shareButtonState, the     *)
(* reset timers pending, the share attempts whose promise is not settled,  *)
(* the clicks made, the event the last step handled and the calls it made. *)
(***************************************************************************)
\* clicks on the share button
MaxShareClicks == 2

\* lines 480, 491, 495
ShareResetDelay == 2000

\* hasClipboard: navigator.clipboard is there; canShare: navigator.share is
ShareStart(result, hasClipboard, canShare) ==
    [mounted |-> TRUE, result |-> result, hasClipboard |-> hasClipboard,
     canShare |-> canShare, state |-> "idle", timers |-> <<>>, pending |-> <<>>, clicks |-> 0,
     event |-> "render", out |-> <<>>]

ShareInit ==
    /\ share \in {ShareStart(r, w, c) :
                    r \in Results, w \in BOOLEAN, c \in BOOLEAN}
    /\ row = Unmounted
    /\ page = Unmounted
    /\ hist = Unmounted
    /\ call = Idle
    /\ prev = Idle

Without(seq, i) == SubSeq(seq, 1, i - 1) \o SubSeq(seq, i + 1, Len(seq))

\* lines 475: the URL handed to the clipboard
ShareUrl(verb) == Origin \o VerbUrl(verb)

\* handleShare up to its first await.  With navigator.clipboard the await is
\* that of writeText (lines 473-478).  Without it line 478 throws before it
\* awaits anything, and the catch of lines 481-496 runs in the same step: up
\* to the await of navigator.share, or to its end when there is none.
ShareHandleShare ==
    /\ share.clicks < MaxShareClicks
    /\ share' =
         IF ~share.result.some
         THEN [share EXCEPT !.event = "click", !.out = <<>>, !.clicks = @ + 1]
         ELSE IF share.hasClipboard
         THEN [share EXCEPT
                 !.event = "click",
                 !.out = <<[fn |-> "writeText",
                            url |-> ShareUrl(share.result.text)]>>,
                 !.pending = Append(@, [stage |-> "writeText",
                                        url |-> ShareUrl(share.result.text)]),
                 !.clicks = @ + 1]
         ELSE IF share.canShare
         THEN [share EXCEPT
                 !.event = "click",
                 !.out = <<[fn |-> "share",
                            url |-> ShareUrl(share.result.text)]>>,
                 !.pending = Append(@, [stage |-> "share",
                                        url |-> ShareUrl(share.result.text)]),
                 !.clicks = @ + 1]
         ELSE [share EXCEPT
                 !.event = "click",
                 !.out = <<>>,
                 !.state = "error",
                 !.timers = SetTimeout(@, ShareResetDelay),
                 !.clicks = @ + 1]
    /\ UNCHANGED <<row, page, hist, vars>>

\* writeText resolved: lines 479-480
ShareWriteTextResolved ==
    /\ \E i \in DOMAIN share.pending :
         /\ share.pending[i].stage = "writeText"
         /\ share' = [share EXCEPT
                        !.event = "writeText resolved",
                        !.out = <<>>,
                        !.state = "copied",
                        !.timers = SetTimeout(@, ShareResetDelay),
                        !.pending = Without(@, i)]
    /\ UNCHANGED <<row, page, hist, vars>>

\* the catch of lines 481-496 with the error state set in every case
ShareWriteTextRejectedAlwaysError ==
    /\ \E i \in DOMAIN share.pending :
         /\ share.pending[i].stage = "writeText"
         /\ share' =
              IF share.canShare
              THEN [share EXCEPT
                      !.event = "writeText rejected",
                      !.out = <<[fn |-> "share", url |-> share.pending[i].url]>>,
                      !.state = "error",
                      !.timers = SetTimeout(@, ShareResetDelay),
                      !.pending[i].stage = "share"]
              ELSE [share EXCEPT
                      !.event = "writeText rejected",
                      !.out = <<>>,
                      !.state = "error",
                      !.timers = SetTimeout(@, ShareResetDelay),
                      !.pending = Without(@, i)]
    /\ UNCHANGED <<row, page, hist, vars>>

\* writeText rejected: lines 481-487 and 493-496
ShareWriteTextRejected ==
    /\ \E i \in DOMAIN share.pending :
         /\ share.pending[i].stage = "writeText"
         /\ share' =
              IF share.canShare
              THEN [share EXCEPT
                      !.event = "writeText rejected",
                      !.out = <<[fn |-> "share", url |-> share.pending[i].url]>>,
                      !.pending[i].stage = "share"]
              ELSE [share EXCEPT
                      !.event = "writeText rejected",
                      !.out = <<>>,
                      !.state = "error",
                      !.timers = SetTimeout(@, ShareResetDelay),
                      !.pending = Without(@, i)]
    /\ UNCHANGED <<row, page, hist, vars>>

\* navigator.share resolved: line 488, nothing follows
ShareShareResolved ==
    /\ \E i \in DOMAIN share.pending :
         /\ share.pending[i].stage = "share"
         /\ share' = [share EXCEPT !.event = "share resolved", !.out = <<>>,
                                   !.pending = Without(@, i)]
    /\ UNCHANGED <<row, page, hist, vars>>

\* an error state that is never reset
ShareShareRejectedNoTimer ==
    /\ \E i \in DOMAIN share.pending :
         /\ share.pending[i].stage = "share"
         /\ share' = [share EXCEPT
                        !.event = "share rejected",
                        !.out = <<>>,
                        !.state = "error",
                        !.pending = Without(@, i)]
    /\ UNCHANGED <<row, page, hist, vars>>

\* navigator.share rejected: lines 489-492
ShareShareRejected ==
    /\ \E i \in DOMAIN share.pending :
         /\ share.pending[i].stage = "share"
         /\ share' = [share EXCEPT
                        !.event = "share rejected",
                        !.out = <<>>,
                        !.state = "error",
                        !.timers = SetTimeout(@, ShareResetDelay),
                        !.pending = Without(@, i)]
    /\ UNCHANGED <<row, page, hist, vars>>

\* the callbacks of lines 480, 491 and 495
ShareTimerFires ==
    /\ Due(share.timers)
    /\ share' = [share EXCEPT !.event = "timer", !.out = <<>>,
                              !.state = "idle", !.timers = Tail(@)]
    /\ UNCHANGED <<row, page, hist, vars>>

ShareElapse ==
    /\ \E d \in Steps :
         /\ CanElapse(share.timers, d)
         /\ share' = [share EXCEPT !.event = "time", !.out = <<>>,
                                   !.timers = Elapsed(@, d)]
    /\ UNCHANGED <<row, page, hist, vars>>

\* the store gets another result, or none
ShareStoreResult ==
    /\ \E r \in Results \ {share.result} :
         share' = [share EXCEPT !.event = "store", !.out = <<>>, !.result = r]
    /\ UNCHANGED <<row, page, hist, vars>>

ShareNext ==
    \/ ShareHandleShare
    \/ ShareWriteTextResolved
    \/ ShareWriteTextRejected
    \/ ShareShareResolved
    \/ ShareShareRejected
    \/ ShareTimerFires
    \/ ShareElapse
    \/ ShareStoreResult

ShareSpec == ShareInit /\ [][ShareNext]_allVars

\* the event loop runs a timer that is due, and time passes
ShareLive ==
    /\ ShareSpec
    /\ WF_allVars(ShareTimerFires)
    /\ WF_allVars(ShareElapse)

(***************************************************************************)
(* C16.  shareButtonState starts as "idle"; a step that sets it to         *)
(* "copied" or "error" sets a reset timer; it is "idle" whenever no timer  *)
(* is pending, and whenever it is not "idle" it is "idle" again later.     *)
(***************************************************************************)
C16_SetSchedulesReset ==
    (share'.state # share.state /\ share'.state # "idle")
    => /\ Len(share'.timers) = Len(share.timers) + 1
       /\ share'.timers[Len(share'.timers)] > 0

C16_ShareStateReverts ==
    /\ [][C16_SetSchedulesReset]_allVars
    /\ [](share.timers = <<>> => share.state = "idle")
    /\ share.state # "idle" ~> share.state = "idle"

C16_Witness ==
    /\ share.mounted
    /\ share.clicks = MaxShareClicks
    /\ share.event = "timer"
    /\ share.timers = <<>>
    /\ share.pending = <<>>
    /\ share.state = "idle"

(***************************************************************************)
(* C19.  handleShare without a result writes nothing and changes nothing;  *)
(* shareButtonState becomes "copied" only in the step that handles a       *)
(* successful clipboard write, "error" only in the step that handles a     *)
(* failed clipboard write without navigator.share or a failed              *)
(* navigator.share (which follows a failed clipboard write), "idle" only   *)
(* by a reset timer; a successful navigator.share leaves it as it was.  A  *)
(* clipboard write fails when its promise is rejected, or at once, in the  *)
(* step of the click, when there is no navigator.clipboard to write to.    *)
(***************************************************************************)
\* the click whose clipboard write fails at once
WriteThrows(s, t) ==
    t.event = "click" /\ s.result.some /\ ~s.hasClipboard

C19_Step ==
    /\ (share'.event = "click" /\ ~share.result.some)
       => /\ share'.out = <<>>
          /\ share'.state = share.state
          /\ share'.pending = share.pending
          /\ share'.timers = share.timers
    /\ (share'.state # share.state /\ share'.state = "copied")
       => share'.event = "writeText resolved"
    /\ (share'.state # share.state /\ share'.state = "error")
       => \/ share'.event = "writeText rejected" /\ ~share.canShare
          \/ WriteThrows(share, share') /\ ~share.canShare
          \/ share'.event = "share rejected"
    /\ (share'.state # share.state /\ share'.state = "idle")
       => share'.event = "timer"
    /\ share'.event = "share rejected"
       => \E i \in DOMAIN share.pending : share.pending[i].stage = "share"
    /\ (share'.event = "share resolved"
          \/ (share'.event = "writeText rejected" /\ share.canShare)
          \/ (WriteThrows(share, share') /\ share.canShare))
       => /\ share'.state = share.state
          /\ share'.timers = share.timers
    /\ Called(share', "writeText")
       => share'.event = "click" /\ share.result.some /\ share.hasClipboard
    /\ Called(share', "share")
       => /\ share.canShare
          /\ share'.event = "writeText rejected" \/ WriteThrows(share, share')

\* an attempt waits for navigator.share only after its clipboard write failed
C19_ShareFollowsFailedWrite ==
    share.mounted
    => \A i \in DOMAIN share.pending :
         share.pending[i].stage = "share" => share.canShare

C19_ShareOutcomeOnly ==
    /\ [][C19_Step]_allVars
    /\ []C19_ShareFollowsFailedWrite

C19_Witness ==
    /\ share.mounted
    /\ share.event = "share resolved"
    /\ share.state = "copied"
    /\ share.pending = <<>>

(***************************************************************************)
(* The search parameters of a URL: searchParams.get(name) on the query     *)
(* string, split at "&" and at the first "=" of a part, with "+" read as a *)
(* blank and the escapes read back.                                        *)
(***************************************************************************)
\* where c first stands in s, one past the end of s when it does not
IndexOf(s, c) ==
    IF \E i \in 1..Len(s) : s[i] = c
    THEN CHOOSE i \in 1..Len(s) : s[i] = c /\ \A j \in 1..(i - 1) : s[j] # c
    ELSE Len(s) + 1

StartsWith(s, pre) == Len(pre) <= Len(s) /\ SubSeq(s, 1, Len(pre)) = pre

RECURSIVE DecodeQuery(_)

DecodeQueryAfter(s, c) ==
    <<c>> \o DecodeQuery(SubSeq(s, Len(Escape(c)) + 1, Len(s)))

DecodeQuery(s) ==
    IF s = <<>> THEN <<>>
    ELSE IF s[1] = "+" THEN <<" ">> \o DecodeQuery(Tail(s))
    ELSE IF \E c \in Escaped : StartsWith(s, Escape(c))
    THEN DecodeQueryAfter(s, CHOOSE c \in Escaped : StartsWith(s, Escape(c)))
    ELSE <<s[1]>> \o DecodeQuery(Tail(s))

PartName(part) == DecodeQuery(SubSeq(part, 1, IndexOf(part, "=") - 1))

PartValue(part) == DecodeQuery(SubSeq(part, IndexOf(part, "=") + 1, Len(part)))

RECURSIVE Get(_, _)
Get(search, name) ==
    IF search = <<>> THEN NoValue
    ELSE IF PartName(SubSeq(search, 1, IndexOf(search, "&") - 1)) = name
    THEN Some(PartValue(SubSeq(search, 1, IndexOf(search, "&") - 1)))
    ELSE Get(SubSeq(search, IndexOf(search, "&") + 1, Len(search)), name)

\* the query string of a URL
QueryOf(url) == SubSeq(url, IndexOf(url, "?") + 1, Len(url))

\* searchParams.get('verb') || searchParams.get('v'), lines 440 and 454
UrlVerb(search) ==
    OrElse(Get(search, <<"v", "e", "r", "b">>), Get(search, <<"v">>))

\* String.prototype.trim
Trim(s) ==
    IF \A i \in 1..Len(s) : s[i] \in WhiteSpace THEN <<>>
    ELSE SubSeq(s,
                CHOOSE i \in 1..Len(s) :
                    s[i] \notin WhiteSpace /\ \A j \in 1..(i - 1) : s[j] \in WhiteSpace,
                CHOOSE i \in 1..Len(s) :
                    s[i] \notin WhiteSpace /\ \A j \in (i + 1)..Len(s) : s[j] \in WhiteSpace)

(***************************************************************************)
(* ConjugatorPage (lines 407-498): the query string of the URL, the ref    *)
(* initializedFromUrl, the effects that have to run after the last render, *)
(* the URL of a router.replace that has not taken effect, the store's      *)
(* inputText, result and isLoading, the navigations and conjugations made, *)
(* the event the last step handled and the calls it made.                  *)
(* Effects run in the order they are written, before the next event.       *)
(***************************************************************************)
\* times the URL is changed from outside the page
MaxNavigations == 1

\* calls of conjugate by handleConjugate
MaxConjugations == 2

\* "", verb=au, v=au, verb=&v=au, verb=au&v=%E9%A3%9F+%26, verb=
Searches ==
    { <<>>,
      <<"v", "e", "r", "b", "=", "a", "u">>,
      <<"v", "=", "a", "u">>,
      <<"v", "e", "r", "b", "=", "&", "v", "=", "a", "u">>,
      <<"v", "e", "r", "b", "=", "a", "u", "&", "v", "=",
        "%", "E", "9", "%", "A", "3", "%", "9", "F", "+", "%", "2", "6">>,
      <<"v", "e", "r", "b", "=">> }

InputTexts == { <<>>, <<" ", "\t">>, <<" ", "a", "u", " ">> }

PageStart(search, result) ==
    [mounted |-> TRUE, search |-> search, initialized |-> FALSE,
     effects |-> {"init", "sync"}, nav |-> NoValue, inputText |-> <<>>,
     result |-> result, isLoading |-> FALSE, navigations |-> 0,
     conjugations |-> 0, event |-> "render", out |-> <<>>]

PageInit ==
    /\ page \in {PageStart(s, r) : s \in Searches, r \in Results}
    /\ row = Unmounted
    /\ share = Unmounted
    /\ hist = Unmounted
    /\ call = Idle
    /\ prev = Idle

\* the store's initFromUrlParams({verb}) returning ok
StoreInitFromUrlParams(p, verb, ok) ==
    IF ok THEN [p EXCEPT !.inputText = verb, !.isLoading = TRUE] ELSE p

\* the store's conjugate()
StoreConjugate(p) == [p EXCEPT !.isLoading = TRUE]

\* the effect of lines 437-448 without the check of the ref
PageInitEffectUnguarded ==
    /\ "init" \in page.effects
    /\ IF ~Truthy(UrlVerb(page.search))
       THEN page' = [page EXCEPT !.event = "init effect", !.out = <<>>,
                                 !.effects = @ \ {"init"}]
       ELSE \E ok \in BOOLEAN :
              page' = [StoreInitFromUrlParams(page, UrlVerb(page.search).text, ok)
                         EXCEPT !.event = "init effect",
                                !.out = <<[fn |-> "initFromUrlParams",
                                           verb |-> UrlVerb(page.search).text,
                                           ok |-> ok]>>,
                                !.initialized = ok,
                                !.effects = @ \ {"init"}]
    /\ UNCHANGED <<row, share, hist, vars>>

\* the effect of lines 437-448
PageInitEffect ==
    /\ "init" \in page.effects
    /\ IF page.initialized \/ ~Truthy(UrlVerb(page.search))
       THEN page' = [page EXCEPT !.event = "init effect", !.out = <<>>,
                                 !.effects = @ \ {"init"}]
       ELSE \E ok \in BOOLEAN :
              page' = [StoreInitFromUrlParams(page, UrlVerb(page.search).text, ok)
                         EXCEPT !.event = "init effect",
                                !.out = <<[fn |-> "initFromUrlParams",
                                           verb |-> UrlVerb(page.search).text,
                                           ok |-> ok]>>,
                                !.initialized = ok,
                                !.effects = @ \ {"init"}]
    /\ UNCHANGED <<row, share, hist, vars>>

\* the effect of lines 451-462 without the comparison of line 458
PageSyncEffectAlways ==
    /\ page.effects = {"sync"}
    /\ page' =
         IF page.result.some
         THEN [page EXCEPT !.event = "sync effect",
                           !.out = <<[fn |-> "replace",
                                      url |-> VerbUrl(page.result.text)]>>,
                           !.nav = Some(VerbUrl(page.result.text)),
                           !.effects = {}]
         ELSE [page EXCEPT !.event = "sync effect", !.out = <<>>,
                           !.effects = {}]
    /\ UNCHANGED <<row, share, hist, vars>>

\* the effect of lines 451-462
PageSyncEffect ==
    /\ page.effects = {"sync"}
    /\ page' =
         IF page.result.some /\ UrlVerb(page.search) # Some(page.result.text)
         THEN [page EXCEPT !.event = "sync effect",
                           !.out = <<[fn |-> "replace",
                                      url |-> VerbUrl(page.result.text)]>>,
                           !.nav = Some(VerbUrl(page.result.text)),
                           !.effects = {}]
         ELSE [page EXCEPT !.event = "sync effect", !.out = <<>>,
                           !.effects = {}]
    /\ UNCHANGED <<row, share, hist, vars>>

\* the URL handed to router.replace takes effect
PageReplaced ==
    /\ page.effects = {}
    /\ page.nav.some
    /\ page' = [page EXCEPT !.event = "replaced", !.out = <<>>,
                            !.search = QueryOf(page.nav.text),
                            !.nav = NoValue,
                            !.effects = {"init", "sync"}]
    /\ UNCHANGED <<row, share, hist, vars>>

\* the URL is changed from outside the page
PageNavigate ==
    /\ page.effects = {}
    /\ page.navigations < MaxNavigations
    /\ \E s \in Searches \ {page.search} :
         page' = [page EXCEPT !.event = "navigate", !.out = <<>>,
                              !.search = s,
                              !.navigations = @ + 1,
                              !.effects = {"init", "sync"}]
    /\ UNCHANGED <<row, share, hist, vars>>

\* ConjugatorInput's onChange: setInputText, line 569
PageSetInputText ==
    /\ page.effects = {}
    /\ \E s \in InputTexts \ {page.inputText} :
         page' = [page EXCEPT !.event = "input", !.out = <<>>, !.inputText = s]
    /\ UNCHANGED <<row, share, hist, vars>>

\* a handleConjugate that does not look at isLoading
PageHandleConjugateWhileLoading ==
    /\ page.effects = {}
    /\ page.conjugations < MaxConjugations
    /\ page' =
         IF Len(Trim(page.inputText)) > 0
         THEN [StoreConjugate(page) EXCEPT !.event = "handleConjugate",
                                           !.out = <<[fn |-> "conjugate"]>>,
                                           !.conjugations = @ + 1]
         ELSE [page EXCEPT !.event = "handleConjugate", !.out = <<>>]
    /\ UNCHANGED <<row, share, hist, vars>>

\* handleConjugate, lines 465-469
PageHandleConjugate ==
    /\ page.effects = {}
    /\ page.conjugations < MaxConjugations
    /\ page' =
         IF Len(Trim(page.inputText)) > 0 /\ ~page.isLoading
         THEN [StoreConjugate(page) EXCEPT !.event = "handleConjugate",
                                           !.out = <<[fn |-> "conjugate"]>>,
                                           !.conjugations = @ + 1]
         ELSE [page EXCEPT !.event = "handleConjugate", !.out = <<>>]
    /\ UNCHANGED <<row, share, hist, vars>>

\* the store ends a conjugation: with a result, or with an error
PageStoreConjugated ==
    /\ page.effects = {}
    /\ page.isLoading
    /\ \/ \E r \in Results \ {NoValue} :
            page' = [page EXCEPT !.event = "conjugated", !.out = <<>>,
                                 !.isLoading = FALSE, !.result = r,
                                 !.effects = {"sync"}]
       \/ page' = [page EXCEPT !.event = "conjugated", !.out = <<>>,
                               !.isLoading = FALSE]
    /\ UNCHANGED <<row, share, hist, vars>>

PageNext ==
    \/ PageInitEffect
    \/ PageSyncEffect
    \/ PageReplaced
    \/ PageNavigate
    \/ PageSetInputText
    \/ PageHandleConjugate
    \/ PageStoreConjugated

PageSpec == PageInit /\ [][PageNext]_allVars

(***************************************************************************)
(* The query strings as the claims read them.                              *)
(***************************************************************************)
VerbName == <<"v", "e", "r", "b">>

\* the 'verb' parameter, or 'v' when 'verb' is absent
VerbOrElseV(search) ==
    IF Get(search, VerbName).some THEN Get(search, VerbName)
    ELSE Get(search, <<"v">>)

\* characters a query string may hold as they are
UrlSafe(s) == \A i \in 1..Len(s) : s[i] \notin (Escaped \ {"%"})

(***************************************************************************)
(* C17.  The URL effect calls router.replace only when a result is present *)
(* and the verb of the URL (the 'verb' parameter, or 'v' when 'verb' is    *)
(* absent) differs from result.verb.dictionaryForm, and then with          *)
(* pathname?verb=<the dictionary form, URI-encoded>; without a result, or  *)
(* with the two equal, it calls nothing; when the query string is the one  *)
(* it writes for the result, it calls nothing.                             *)
(***************************************************************************)
C17_Step ==
    /\ Called(page', "replace")
       => /\ page'.event = "sync effect"
          /\ page.result.some
          /\ VerbOrElseV(page.search) # Some(page.result.text)
          /\ Len(page'.out) = 1
          /\ StartsWith(page'.out[1].url, Pathname \o <<"?">> \o VerbName \o <<"=">>)
          /\ UrlSafe(SubSeq(page'.out[1].url, Len(Pathname) + 7,
                            Len(page'.out[1].url)))
          /\ Get(QueryOf(page'.out[1].url), VerbName) = Some(page.result.text)
          /\ page'.nav = Some(page'.out[1].url)
    /\ ( /\ page'.event = "sync effect"
         /\ \/ ~page.result.some
            \/ VerbOrElseV(page.search) = Some(page.result.text)
            \/ /\ page.result.some
               /\ page.search = VerbName \o <<"=">>
                                  \o encodeURIComponent(page.result.text) )
       => /\ page'.out = <<>>
          /\ page'.nav = page.nav

C17_ReplaceOnlyOnChange == [][C17_Step]_allVars

C17_Witness ==
    /\ page.mounted
    /\ page.event = "sync effect"
    /\ page.out = <<>>
    /\ page.result = Some(<<"食", " ", "&">>)
    /\ page.search = <<"v", "e", "r", "b", "=", "%", "E", "9", "%", "A", "3",
                       "%", "9", "F", "%", "2", "0", "%", "2", "6">>
    /\ page.nav = NoValue

(***************************************************************************)
(* C18.  As claimed: once initFromUrlParams has returned true it is not    *)
(* called again; it is not called while the URL has neither 'verb' nor     *)
(* 'v'; with both present it is called with the value of 'verb'.           *)
(***************************************************************************)
InitReturnedTrue(p) ==
    \E i \in DOMAIN p.out : p.out[i].fn = "initFromUrlParams" /\ p.out[i].ok

C18_OnceAndFromUrl ==
    /\ page.initialized => ~Called(page', "initFromUrlParams")
    /\ InitReturnedTrue(page') => page'.initialized
    /\ Called(page', "initFromUrlParams")
       => /\ page'.event = "init effect"
          /\ Get(page.search, VerbName).some \/ Get(page.search, <<"v">>).some

C18_StepAsClaimed ==
    /\ C18_OnceAndFromUrl
    /\ ( /\ Called(page', "initFromUrlParams")
         /\ Get(page.search, VerbName).some
         /\ Get(page.search, <<"v">>).some )
       => page'.out[1].verb = Get(page.search, VerbName).text

C18_InitOnce == [][C18_StepAsClaimed]_allVars

(***************************************************************************)
(* C18, amended.  Once initFromUrlParams has returned true it is not       *)
(* called again; it is not called while the URL has neither 'verb' nor     *)
(* 'v'; with both present it is called with the value of 'verb' when that  *)
(* value is not empty, and with the value of 'v' when it is.               *)
(***************************************************************************)
C18_StepAmended ==
    /\ C18_OnceAndFromUrl
    /\ ( /\ Called(page', "initFromUrlParams")
         /\ Get(page.search, VerbName).some
         /\ Get(page.search, <<"v">>).some )
       => page'.out[1].verb =
            IF Get(page.search, VerbName).text # <<>>
            THEN Get(page.search, VerbName).text
            ELSE Get(page.search, <<"v">>).text

C18_InitOnceNonEmpty == [][C18_StepAmended]_allVars

C18_Witness ==
    /\ page.mounted
    /\ page.initialized
    /\ page.navigations = 1
    /\ page.event = "init effect"
    /\ page.out = <<>>
    /\ Get(page.search, VerbName) = Some(<<"a", "u">>)
    /\ Get(page.search, <<"v">>) = Some(<<"食", " ", "&">>)

(***************************************************************************)
(* C20.  handleConjugate calls the store's conjugate only when the input   *)
(* has a character that is not white space and isLoading is false; with an *)
(* empty or blank input, or while a conjugation is loading, it calls       *)
(* nothing and changes nothing, so none is started while one is running.   *)
(***************************************************************************)
HasText(s) == \E i \in 1..Len(s) : s[i] \notin WhiteSpace

C20_Step ==
    /\ Called(page', "conjugate")
       => /\ page'.event = "handleConjugate"
          /\ HasText(page.inputText)
          /\ ~page.isLoading
          /\ Len(page'.out) = 1
    /\ (page'.event = "handleConjugate"
          /\ (~HasText(page.inputText) \/ page.isLoading))
       => page' = [page EXCEPT !.event = "handleConjugate", !.out = <<>>]
    /\ (page'.event = "handleConjugate"
          /\ HasText(page.inputText) /\ ~page.isLoading)
       => Called(page', "conjugate")

C20_ConjugateGuarded == [][C20_Step]_allVars

C20_Witness ==
    /\ page.mounted
    /\ page.event = "handleConjugate"
    /\ page.out = <<>>
    /\ page.isLoading
    /\ page.conjugations = 1
    /\ page.inputText = <<" ", "a", "u", " ">>

(***************************************************************************)
(* ConjugationHistory: the panel of recent verbs with its dialog that      *)
(* confirms clearing them.  entries is the property the page hands down    *)
(* (the ids of the store's history), open is clearDialogOpen, out the      *)
(* callbacks the last step called.                                         *)
(***************************************************************************)
\* ids of history entries
MaxEntries == 3
\* clicks on "Purge All" in a run
MaxPurges == 2

EntryIds == 1..MaxEntries

HistStart(entries) ==
    [mounted |-> TRUE, entries |-> entries, open |-> FALSE, purges |-> 0,
     event |-> "render", out |-> <<>>]

HistInit ==
    /\ hist \in {HistStart(e) : e \in SUBSET EntryIds}
    /\ row = Unmounted
    /\ share = Unmounted
    /\ page = Unmounted
    /\ call = Idle
    /\ prev = Idle

\* a panel that renders its header and dialog for an empty list as well
HistControlsNoEmptyState(h) ==
    {"trigger"}
      \cup (IF h.open THEN {"retain", "purge"} ELSE {})
      \cup {"record"}

\* what the panel renders: nothing to click for an empty list, else the
\* trigger, the records, and the two buttons of the dialog while it is open
HistControls(h) ==
    IF h.entries = {} THEN {}
    ELSE {"trigger"}
           \cup (IF h.open THEN {"retain", "purge"} ELSE {})
           \cup {"record"}

\* the store's clearHistory and deleteFromHistory
StoreClearHistory(entries) == {}

StoreDeleteFromHistory(entries, id) == entries \ {id}

\* the trigger is clicked: onOpenChange(true)
HistOpenDialog ==
    /\ "trigger" \in HistControls(hist)
    /\ ~hist.open
    /\ hist' = [hist EXCEPT !.event = "open", !.out = <<>>, !.open = TRUE]
    /\ UNCHANGED <<row, share, page, vars>>

\* the dialog is dismissed from the keyboard: onOpenChange(false)
HistDismiss ==
    /\ "retain" \in HistControls(hist)
    /\ hist' = [hist EXCEPT !.event = "dismiss", !.out = <<>>, !.open = FALSE]
    /\ UNCHANGED <<row, share, page, vars>>

\* "Retain"
HistRetain ==
    /\ "retain" \in HistControls(hist)
    /\ hist' = [hist EXCEPT !.event = "retain", !.out = <<>>, !.open = FALSE]
    /\ UNCHANGED <<row, share, page, vars>>

\* a "Purge All" that leaves the dialog open
HistPurgeAllStaysOpen ==
    /\ "purge" \in HistControls(hist)
    /\ hist.purges < MaxPurges
    /\ hist' = [hist EXCEPT !.event = "purge",
                            !.out = <<[fn |-> "onClearAll"]>>,
                            !.entries = StoreClearHistory(@),
                            !.purges = @ + 1]
    /\ UNCHANGED <<row, share, page, vars>>

\* "Purge All": onClearAll(); setClearDialogOpen(false)
HistPurgeAll ==
    /\ "purge" \in HistControls(hist)
    /\ hist.purges < MaxPurges
    /\ hist' = [hist EXCEPT !.event = "purge",
                            !.out = <<[fn |-> "onClearAll"]>>,
                            !.entries = StoreClearHistory(@),
                            !.open = FALSE,
                            !.purges = @ + 1]
    /\ UNCHANGED <<row, share, page, vars>>

\* a record is clicked: onSelect(entry)
HistSelect ==
    /\ "record" \in HistControls(hist)
    /\ \E id \in hist.entries :
         hist' = [hist EXCEPT !.event = "select",
                              !.out = <<[fn |-> "onSelect", id |-> id]>>]
    /\ UNCHANGED <<row, share, page, vars>>

\* the cross of a record is clicked: onDelete(entry.id)
HistDelete ==
    /\ "record" \in HistControls(hist)
    /\ \E id \in hist.entries :
         hist' = [hist EXCEPT !.event = "delete",
                              !.out = <<[fn |-> "onDelete", id |-> id]>>,
                              !.entries = StoreDeleteFromHistory(@, id)]
    /\ UNCHANGED <<row, share, page, vars>>

\* the store records a conjugated verb
HistStoreAdd ==
    /\ \E id \in EntryIds \ hist.entries :
         hist' = [hist EXCEPT !.event = "store", !.out = <<>>,
                              !.entries = @ \cup {id}]
    /\ UNCHANGED <<row, share, page, vars>>

HistNext ==
    \/ HistOpenDialog
    \/ HistDismiss
    \/ HistRetain
    \/ HistPurgeAll
    \/ HistSelect
    \/ HistDelete
    \/ HistStoreAdd

HistSpec == HistInit /\ [][HistNext]_allVars

(***************************************************************************)
(* C21.  onClearAll is called only by the step of "Purge All", taken with  *)
(* the dialog open and a history that is not empty, and that step closes   *)
(* the dialog; "Retain" closes the dialog and calls nothing; opening the   *)
(* dialog calls nothing; a panel with no entries renders no control.       *)
(***************************************************************************)
C21_Step ==
    /\ Called(hist', "onClearAll")
       => /\ hist'.event = "purge"
          /\ hist.open
          /\ hist.entries # {}
          /\ ~hist'.open
          /\ Len(hist'.out) = 1
    /\ hist'.event = "purge" => Called(hist', "onClearAll") /\ ~hist'.open
    /\ hist'.event = "retain"
       => /\ hist.open
          /\ hist' = [hist EXCEPT !.event = "retain", !.out = <<>>,
                                  !.open = FALSE]
    /\ hist'.event = "open"
       => hist' = [hist EXCEPT !.event = "open", !.out = <<>>, !.open = TRUE]
    /\ (hist.mounted /\ hist.entries = {})
       => /\ HistControls(hist) = {}
          /\ ~Called(hist', "onClearAll")

C21_ClearOnlyByPurge == [][C21_Step]_allVars

C21_Witness ==
    /\ hist.mounted
    /\ hist.event = "purge"
    /\ hist.out = <<[fn |-> "onClearAll"]>>
    /\ ~hist.open
    /\ hist.entries = {}
    /\ hist.purges = MaxPurges

(***************************************************************************)
(* C22.  The `copied' flag of a row is turned off, while the row is        *)
(* mounted, only when 2000 ms have passed since the most recent click: the *)
(* timer of the latest click (the last one set) has no time left when the  *)
(* flag goes off.                                                          *)
(***************************************************************************)
\* ms passed since the latest click, while its timer is pending
SinceLastClick(r) == CopiedResetDelay - r.timers[Len(r.timers)]

C22_Step ==
    (row.copied /\ ~row'.copied /\ row'.event # "mount")
    => /\ row.timers # <<>>
       /\ SinceLastClick(row) >= CopiedResetDelay

C22_CopiedFullInterval == [][C22_Step]_allVars

\* the flag is off 500 ms after the latest click
C22_EarlyReset ==
    /\ row.mounted
    /\ row.event = "timer"
    /\ ~row.copied
    /\ row.clicks = 2
    /\ row.timers = <<500>>

(***************************************************************************)
(* C23.  initFromUrlParams is called only for search parameters that came  *)
(* from outside the page: the run of the init effect that follows a        *)
(* router.replace of the page itself taking effect calls nothing.          *)
(***************************************************************************)
C23_Step ==
    Called(page', "initFromUrlParams") => page.event # "replaced"

C23_InitOnlyFromOutside == [][C23_Step]_allVars

\* the page was not loaded with the verb it is initialized from: the user
\* conjugated once, nothing navigated from outside, and the URL is one that
\* only the page writes
C23_SelfInit ==
    /\ page.mounted
    /\ page.event = "init effect"
    /\ Called(page, "initFromUrlParams")
    /\ page.navigations = 0
    /\ page.conjugations = 1
    /\ page.search = <<"v", "e", "r", "b", "=", "%", "E", "9", "%", "A", "3",
                       "%", "9", "F", "%", "2", "0", "%", "2", "6">>

=============================================================================
